---- MODULE Spec2Model ----
(***************************************************************************)
(* Model of the AI editor workflow: the XState machine editorMachine, the  *)
(* callback actor createAIGenerationActor and the singleton AIService with *)
(* its asynchronous request callGeminiAPI.                                 *)
(*                                                                         *)
(* Strings are sequences of one-character strings.  One action is one      *)
(* JavaScript task: a user event processed to completion by the machine,   *)
(* or the continuation of one request after one of its await points,       *)
(* together with every callback and machine transition it runs             *)
(* synchronously.                                                          *)
(***************************************************************************)
EXTENDS Integers, Sequences, FiniteSets, TLC

\* ------------------------------------------------------------------ bounds
MaxSessions == 2
MaxGenLen == 1

Sessions == 1..MaxSessions

GenChars == {" ", "\n"}

SeqsUpTo(S, n) == UNION {[1..k -> S] : k \in 0..n}

\* texts the user can type into the editor: empty, whitespace only, and
\* text with whitespace on both sides
Inputs == {<< >>, <<" ">>, <<" ", "a", " ">>}
\* texts the remote model can return (the empty text included), made of a
\* space and a line break
GenTexts == SeqsUpTo(GenChars, MaxGenLen)

\* ----------------------------------------------------------------- strings
null == "null"
EmptyString == << >>

IsWhitespace(c) == c \in {" ", "\n"}

RECURSIVE trimStart(_)
trimStart(s) ==
  IF s # << >> /\ IsWhitespace(Head(s)) THEN trimStart(Tail(s)) ELSE s

RECURSIVE trimEnd(_)
trimEnd(s) ==
  IF s # << >> /\ IsWhitespace(s[Len(s)])
  THEN trimEnd(SubSeq(s, 1, Len(s) - 1))
  ELSE s

\* String.prototype.trim
trim(s) == trimEnd(trimStart(s))

\* String.prototype.startsWith(' ')
startsWithSpace(s) == s # << >> /\ Head(s) = " "

\* ------------------------------------------------------------------ editor
\* The ProseMirror document is the sequence of the texts of its paragraphs.
RECURSIVE splitLines(_)
splitLines(s) ==
  IF \E i \in DOMAIN s : s[i] = "\n"
  THEN LET i == CHOOSE i \in DOMAIN s :
                  s[i] = "\n" /\ \A j \in 1..(i - 1) : s[j] # "\n"
       IN <<SubSeq(s, 1, i - 1)>> \o splitLines(SubSeq(s, i + 1, Len(s)))
  ELSE <<s>>

RECURSIVE textContent(_)
\* Node.textContent: the texts of the paragraphs, nothing between them
textContent(doc) ==
  IF doc = << >> THEN EmptyString ELSE Head(doc) \o textContent(Tail(doc))

\* useProsemirror.getContent
getContent(doc) == textContent(doc)

\* useProsemirror.setContent: `<p>${content.replace(/\n/g, '</p><p>')}</p>`
\* parsed into the document, which replaces the old one
setContent(content) == splitLines(content)

\* the document after the user's edit: the text typed, in one paragraph
typed(text) == <<text>>

\* ------------------------------------------------------------------ events
\* EditorEvent, with the session whose callback produced it (0: the user)
Event(type, text, err, sid) ==
  [type |-> type, text |-> text, error |-> err, sid |-> sid]

UserEvent(type) == Event(type, EmptyString, null, 0)

\* ----------------------------------------------------------------- context
initialContext ==
  [content |-> EmptyString,
   baseContent |-> EmptyString,
   suggestedContent |-> EmptyString,
   error |-> null,
   isPartialSuggestion |-> FALSE]

\* the guard with the trim() forgotten
hasContent_noTrim(context) == Len(context.content) > 0

\* guard of CONTINUE_WRITING (idle, error) and RETRY
hasContent(context) == Len(trim(context.content)) > 0

\* edit stored without its surrounding whitespace
idle_UPDATE_CONTENT_trims(context, event) ==
  [context EXCEPT !.content = trim(event.text)]

idle_UPDATE_CONTENT(context, event) ==
  [context EXCEPT !.content = event.text]

idle_CONTINUE_WRITING(context) ==
  [context EXCEPT !.baseContent = context.content,
                  !.suggestedContent = EmptyString,
                  !.error = null,
                  !.isPartialSuggestion = FALSE]

\* chunks streamed straight into the document
generating_STREAM_CHUNK_inline(context, event) ==
  [context EXCEPT !.suggestedContent = context.suggestedContent \o event.text,
                  !.content = context.content \o event.text]

generating_STREAM_CHUNK(context, event) ==
  [context EXCEPT !.suggestedContent = context.suggestedContent \o event.text]

\* completion stored without its surrounding whitespace
generating_GENERATION_DONE_trims(context, event) ==
  [context EXCEPT !.suggestedContent = trim(event.text),
                  !.isPartialSuggestion = FALSE]

\* completion appended to the accumulated chunks
generating_GENERATION_DONE_appends(context, event) ==
  [context EXCEPT !.suggestedContent = context.suggestedContent \o event.text,
                  !.isPartialSuggestion = FALSE]

generating_GENERATION_DONE(context, event) ==
  [context EXCEPT !.suggestedContent = event.text,
                  !.isPartialSuggestion = FALSE]

\* failure that also resets the base content
generating_GENERATION_ERROR_resetsBase(context, event) ==
  [context EXCEPT !.error = event.error,
                  !.suggestedContent = EmptyString,
                  !.baseContent = EmptyString]

\* failure that leaves the accumulated chunks in the preview
generating_GENERATION_ERROR_keepsChunks(context, event) ==
  [context EXCEPT !.error = event.error]

generating_GENERATION_ERROR(context, event) ==
  [context EXCEPT !.error = event.error,
                  !.suggestedContent = EmptyString]

\* cancel that clears the preview
generating_CANCEL_clears(context) ==
  [context EXCEPT !.suggestedContent = EmptyString,
                  !.isPartialSuggestion = TRUE]

generating_CANCEL(context) ==
  [context EXCEPT !.isPartialSuggestion = TRUE]

\* accept that forgets the base content
reviewingSuggestion_ACCEPT_SUGGESTION_dropsBase(context) ==
  [context EXCEPT !.content = context.suggestedContent,
                  !.suggestedContent = EmptyString,
                  !.baseContent = EmptyString,
                  !.isPartialSuggestion = FALSE]

reviewingSuggestion_ACCEPT_SUGGESTION(context) ==
  [context EXCEPT !.content = context.baseContent \o context.suggestedContent,
                  !.suggestedContent = EmptyString,
                  !.baseContent = EmptyString,
                  !.isPartialSuggestion = FALSE]

\* reject that keeps the suggestion in the document
reviewingSuggestion_REJECT_SUGGESTION_keeps(context) ==
  [context EXCEPT !.content = context.baseContent \o context.suggestedContent,
                  !.suggestedContent = EmptyString,
                  !.baseContent = EmptyString,
                  !.isPartialSuggestion = FALSE]

\* reject that leaves the preview in place
reviewingSuggestion_REJECT_SUGGESTION_keepsPreview(context) ==
  [context EXCEPT !.content = context.baseContent,
                  !.baseContent = EmptyString,
                  !.isPartialSuggestion = FALSE]

reviewingSuggestion_REJECT_SUGGESTION(context) ==
  [context EXCEPT !.content = context.baseContent,
                  !.suggestedContent = EmptyString,
                  !.baseContent = EmptyString,
                  !.isPartialSuggestion = FALSE]

\* regenerate that leaves the partial flag set
reviewingSuggestion_REGENERATE_keepsPartial(context) ==
  [context EXCEPT !.suggestedContent = EmptyString,
                  !.error = null]

reviewingSuggestion_REGENERATE(context) ==
  [context EXCEPT !.suggestedContent = EmptyString,
                  !.error = null,
                  !.isPartialSuggestion = FALSE]

\* retry that reuses the old snapshot
error_RETRY_keepsBase(context) ==
  [context EXCEPT !.suggestedContent = EmptyString,
                  !.error = null,
                  !.isPartialSuggestion = FALSE]

error_RETRY(context) ==
  [context EXCEPT !.baseContent = context.content,
                  !.suggestedContent = EmptyString,
                  !.error = null,
                  !.isPartialSuggestion = FALSE]

\* dismiss that also empties the document
error_DISMISS_ERROR_clearsContent(context) ==
  [context EXCEPT !.error = null,
                  !.content = EmptyString,
                  !.suggestedContent = EmptyString,
                  !.isPartialSuggestion = FALSE]

error_DISMISS_ERROR(context) ==
  [context EXCEPT !.error = null,
                  !.suggestedContent = EmptyString,
                  !.isPartialSuggestion = FALSE]

\* edit in Error that leaves the error message
error_UPDATE_CONTENT_keepsError(context, event) ==
  [context EXCEPT !.content = event.text,
                  !.isPartialSuggestion = FALSE]

error_UPDATE_CONTENT(context, event) ==
  [context EXCEPT !.content = event.text,
                  !.error = null,
                  !.isPartialSuggestion = FALSE]

error_CONTINUE_WRITING(context) ==
  [context EXCEPT !.baseContent = context.content,
                  !.suggestedContent = EmptyString,
                  !.error = null,
                  !.isPartialSuggestion = FALSE]

\* a transition: taken or not; target "" is a targetless transition
Taken(target, context) == [taken |-> TRUE, target |-> target, context |-> context]
NotTaken(context) == [taken |-> FALSE, target |-> "", context |-> context]

\* idle whose CONTINUE_WRITING has no guard
idle_on_unguarded(context, event) ==
  CASE event.type = "UPDATE_CONTENT" ->
         Taken("", idle_UPDATE_CONTENT(context, event))
    [] event.type = "CONTINUE_WRITING" ->
         Taken("generating", idle_CONTINUE_WRITING(context))
    [] OTHER -> NotTaken(context)

\* idle that still handles ACCEPT_SUGGESTION
idle_on_accepts(context, event) ==
  CASE event.type = "UPDATE_CONTENT" ->
         Taken("", idle_UPDATE_CONTENT(context, event))
    [] event.type = "CONTINUE_WRITING" /\ hasContent(context) ->
         Taken("generating", idle_CONTINUE_WRITING(context))
    [] event.type = "ACCEPT_SUGGESTION" ->
         Taken("", [context EXCEPT !.content = @ \o <<"x">>])
    [] OTHER -> NotTaken(context)

\* the `on` table of each state: the transition selected for an event
idle_on(context, event) ==
  CASE event.type = "UPDATE_CONTENT" ->
         Taken("", idle_UPDATE_CONTENT(context, event))
    [] event.type = "CONTINUE_WRITING" /\ hasContent(context) ->
         Taken("generating", idle_CONTINUE_WRITING(context))
    [] OTHER -> NotTaken(context)

\* generating that starts over on failure
generating_on_autoRetry(context, event) ==
  CASE event.type = "STREAM_CHUNK" ->
         Taken("", generating_STREAM_CHUNK(context, event))
    [] event.type = "GENERATION_DONE" ->
         Taken("reviewingSuggestion", generating_GENERATION_DONE(context, event))
    [] event.type = "GENERATION_ERROR" ->
         Taken("generating", generating_GENERATION_ERROR(context, event))
    [] event.type = "CANCEL" ->
         Taken("reviewingSuggestion", generating_CANCEL(context))
    [] OTHER -> NotTaken(context)

\* generating without a CANCEL handler
generating_on_noCancel(context, event) ==
  CASE event.type = "STREAM_CHUNK" ->
         Taken("", generating_STREAM_CHUNK(context, event))
    [] event.type = "GENERATION_DONE" ->
         Taken("reviewingSuggestion", generating_GENERATION_DONE(context, event))
    [] event.type = "GENERATION_ERROR" ->
         Taken("error", generating_GENERATION_ERROR(context, event))
    [] OTHER -> NotTaken(context)

generating_on(context, event) ==
  CASE event.type = "STREAM_CHUNK" ->
         Taken("", generating_STREAM_CHUNK(context, event))
    [] event.type = "GENERATION_DONE" ->
         Taken("reviewingSuggestion", generating_GENERATION_DONE(context, event))
    [] event.type = "GENERATION_ERROR" ->
         Taken("error", generating_GENERATION_ERROR(context, event))
    [] event.type = "CANCEL" ->
         Taken("reviewingSuggestion", generating_CANCEL(context))
    [] OTHER -> NotTaken(context)

\* review that still appends late chunks to the preview
reviewingSuggestion_on_streams(context, event) ==
  CASE event.type = "ACCEPT_SUGGESTION" ->
         Taken("idle", reviewingSuggestion_ACCEPT_SUGGESTION(context))
    [] event.type = "REJECT_SUGGESTION" ->
         Taken("idle", reviewingSuggestion_REJECT_SUGGESTION(context))
    [] event.type = "REGENERATE" ->
         Taken("generating", reviewingSuggestion_REGENERATE(context))
    [] event.type = "STREAM_CHUNK" ->
         Taken("", generating_STREAM_CHUNK(context, event))
    [] OTHER -> NotTaken(context)

\* REGENERATE offered only for complete suggestions
reviewingSuggestion_on_guarded(context, event) ==
  CASE event.type = "ACCEPT_SUGGESTION" ->
         Taken("idle", reviewingSuggestion_ACCEPT_SUGGESTION(context))
    [] event.type = "REJECT_SUGGESTION" ->
         Taken("idle", reviewingSuggestion_REJECT_SUGGESTION(context))
    [] event.type = "REGENERATE" /\ ~context.isPartialSuggestion ->
         Taken("generating", reviewingSuggestion_REGENERATE(context))
    [] OTHER -> NotTaken(context)

reviewingSuggestion_on(context, event) ==
  CASE event.type = "ACCEPT_SUGGESTION" ->
         Taken("idle", reviewingSuggestion_ACCEPT_SUGGESTION(context))
    [] event.type = "REJECT_SUGGESTION" ->
         Taken("idle", reviewingSuggestion_REJECT_SUGGESTION(context))
    [] event.type = "REGENERATE" ->
         Taken("generating", reviewingSuggestion_REGENERATE(context))
    [] OTHER -> NotTaken(context)

\* Error in which an edit does not lead back to Idle
error_on_staysOnEdit(context, event) ==
  CASE event.type = "RETRY" /\ hasContent(context) ->
         Taken("generating", error_RETRY(context))
    [] event.type = "DISMISS_ERROR" ->
         Taken("idle", error_DISMISS_ERROR(context))
    [] event.type = "UPDATE_CONTENT" ->
         Taken("", error_UPDATE_CONTENT(context, event))
    [] event.type = "CONTINUE_WRITING" /\ hasContent(context) ->
         Taken("generating", error_CONTINUE_WRITING(context))
    [] OTHER -> NotTaken(context)

error_on(context, event) ==
  CASE event.type = "RETRY" /\ hasContent(context) ->
         Taken("generating", error_RETRY(context))
    [] event.type = "DISMISS_ERROR" ->
         Taken("idle", error_DISMISS_ERROR(context))
    [] event.type = "UPDATE_CONTENT" ->
         Taken("idle", error_UPDATE_CONTENT(context, event))
    [] event.type = "CONTINUE_WRITING" /\ hasContent(context) ->
         Taken("generating", error_CONTINUE_WRITING(context))
    [] OTHER -> NotTaken(context)

\* editorMachine.states
editorMachine(st, context, event) ==
  CASE st = "idle" -> idle_on(context, event)
    [] st = "generating" -> generating_on(context, event)
    [] st = "reviewingSuggestion" -> reviewingSuggestion_on(context, event)
    [] st = "error" -> error_on(context, event)

\* ------------------------------------------------------------------- state
VARIABLES
  state,        \* the machine's state value
  context,      \* EditorContext
  actor,        \* session of the invoked aiGeneration actor, 0 when none runs
  isCancelled,  \* isCancelled flag of each actor closure
  aiService,    \* the singleton: abortController (0 is null) and isActive
  aborted,      \* signal.aborted of the AbortController made for each session
  req,          \* each callGeminiAPI call: its await point and its locals
  nsess,        \* number of sessions started so far
  sent,         \* history: events handed to the machine during the last task
  called,       \* history: service callbacks invoked during the last task
  cancelled,    \* history: sessions stopped by CANCEL whose request still runs
  startContent, \* history: content when the pending cycle's CONTINUE_WRITING
                \* or RETRY was taken
  streamed,     \* history: chunks applied to the pending suggestion
  applied,      \* history: the newest session's suggestion has been applied
  reviewVia,    \* history: the event that entered ReviewingSuggestion, "" outside
  editorView,   \* the document of the ProseMirror view
  setContentCalls, \* history: calls of setContent during the last task
  lastPrompt,   \* history: the prompt passed for the running session
  toasts,       \* history: notifications emitted during the last task
  fault,        \* history: the failure the last task's continuation met
  order         \* history: callbacks, isCancelled assignments and cancel()
                \* calls of the last task, in the order they happened

vars == <<state, context, actor, isCancelled, aiService, aborted, req, nsess,
          sent, called, cancelled, startContent, streamed, applied,
          reviewVia, editorView, setContentCalls, lastPrompt, toasts,
          fault, order>>

\* a request that was not started, or whose locals are gone
NoRequest(pc) ==
  [pc |-> pc, textToStream |-> EmptyString, i |-> 0, fullText |-> EmptyString]

NoFault == [kind |-> "", sid |-> 0]

\* the whole program state as one value, so that handlers compose
World ==
  [state |-> state, context |-> context, actor |-> actor,
   isCancelled |-> isCancelled, aiService |-> aiService, aborted |-> aborted,
   req |-> req, nsess |-> nsess, sent |-> << >>, called |-> << >>,
   cancelled |-> cancelled, startContent |-> startContent,
   streamed |-> streamed, applied |-> applied, reviewVia |-> reviewVia,
   editorView |-> editorView, setContentCalls |-> 0, lastPrompt |-> lastPrompt,
   toasts |-> << >>, fault |-> NoFault, order |-> << >>]

Commit(w) ==
  /\ state' = w.state
  /\ context' = w.context
  /\ actor' = w.actor
  /\ isCancelled' = w.isCancelled
  /\ aiService' = w.aiService
  /\ aborted' = w.aborted
  /\ req' = w.req
  /\ nsess' = w.nsess
  /\ sent' = w.sent
  /\ called' = w.called
  /\ cancelled' = w.cancelled
  /\ startContent' = w.startContent
  /\ streamed' = w.streamed
  /\ applied' = w.applied
  /\ reviewVia' = w.reviewVia
  /\ editorView' = w.editorView
  /\ setContentCalls' = w.setContentCalls
  /\ lastPrompt' = w.lastPrompt
  /\ toasts' = w.toasts
  /\ fault' = w.fault
  /\ order' = w.order

\* history: the request of session s met a failure of this kind
Fault(w, kind, s) == [w EXCEPT !.fault = [kind |-> kind, sid |-> s]]

\* history: operation op happened for session s (0: for no session)
Did(w, op, s) == [w EXCEPT !.order = Append(@, [op |-> op, sid |-> s])]

\* ----------------------------------------------------------------- service
\* cancel that drops the controller without aborting it
cancel_noAbort(w) ==
  [w EXCEPT !.aiService = [abortController |-> 0, isActive |-> FALSE]]

\* cancel without the null check: abort() on null throws
cancel_unguarded(w) ==
  LET c == w.aiService.abortController IN
  IF c = 0
  THEN [w EXCEPT !.called = Append(@, [cb |-> "TypeError", sid |-> 0,
                                       arg |-> EmptyString,
                                       afterCancel |-> FALSE])]
  ELSE [w EXCEPT !.aborted = [@ EXCEPT ![c] = TRUE],
                 !.aiService = [abortController |-> 0, isActive |-> FALSE]]

\* AIService.cancel
cancel(w) ==
  LET c == w.aiService.abortController IN
  [w EXCEPT !.aborted = IF c # 0 THEN [@ EXCEPT ![c] = TRUE] ELSE @,
            !.aiService = [abortController |-> 0, isActive |-> FALSE]]

\* callGeminiAPI up to its first await: the entry check, then fetch
callGeminiAPI(w, s, prompt) ==
  IF w.aborted[s]
  THEN [w EXCEPT !.req[s] = NoRequest("done")]
  ELSE [w EXCEPT !.req[s] = NoRequest("fetch"), !.lastPrompt = prompt]

\* AIService.continueWriting up to its first await
continueWriting(w, s, currentText) ==
  LET w1 == cancel(Did(w, "cancel", w.aiService.abortController))
      w2 == [w1 EXCEPT !.aiService = [abortController |-> s, isActive |-> TRUE]]
  IN callGeminiAPI(Did(w2, "continueWriting", s), s, currentText)

\* callGeminiAPI returns (silently or after a terminal callback); the finally
\* block of continueWriting then runs
settle(w, s) ==
  [w EXCEPT !.req[s] = NoRequest("done"),
            !.aiService.isActive = FALSE,
            !.cancelled = @ \ {s}]

\* ------------------------------------------------------------------- actor
\* cleanup that leaves the flag alone
cleanup_flagNotSet(w, s) == cancel(w)

\* cleanup that cancels before it sets the flag
cleanup_cancelFirst(w, s) ==
  LET w1 == cancel(Did(w, "cancel", w.aiService.abortController))
  IN Did([w1 EXCEPT !.isCancelled[s] = TRUE], "isCancelled", s)

\* cleanup function returned by the actor callback
cleanup(w, s) ==
  LET w1 == Did([w EXCEPT !.isCancelled[s] = TRUE], "isCancelled", s)
  IN cancel(Did(w1, "cancel", w1.aiService.abortController))

\* generating.exit
generating_exit(w) == cancel(Did(w, "cancel", w.aiService.abortController))

\* invoke after which the cleanup of the previous actor still runs
invoke_lateCleanup(w) ==
  LET s == w.nsess + 1
      w1 == [w EXCEPT !.nsess = s, !.actor = s, !.isCancelled[s] = FALSE]
      w2 == continueWriting(w1, s, w1.context.baseContent)
  IN IF s > 1 THEN cleanup(w2, s - 1) ELSE w2

\* invoke whose input is the trimmed base content
invoke_trimmedPrompt(w) ==
  LET s == w.nsess + 1
      w1 == [w EXCEPT !.nsess = s, !.actor = s, !.isCancelled[s] = FALSE]
  IN continueWriting(w1, s, trim(w1.context.baseContent))

\* generating.invoke: a new actor runs the callback body
invoke(w) ==
  LET s == w.nsess + 1
      w1 == [w EXCEPT !.nsess = s, !.actor = s, !.isCancelled[s] = FALSE]
  IN continueWriting(w1, s, w1.context.baseContent)

\* stop that forgets the cleanup function
stopChild_noCleanup(w) ==
  IF w.actor # 0 THEN [w EXCEPT !.actor = 0] ELSE w

\* stop of the invoked actor when its state is left
stopChild(w) ==
  IF w.actor # 0 THEN [cleanup(w, w.actor) EXCEPT !.actor = 0] ELSE w

\* the history variables after an event: what was sent (with its payload when
\* a transition was taken), and what the taken transition did
record(w, event, t) ==
  [w EXCEPT
     !.sent = Append(@, [event |-> IF t.taken THEN event
                                   ELSE Event(event.type, EmptyString, null,
                                              event.sid),
                         taken |-> t.taken,
                         from |-> w.state]),
     !.cancelled = IF t.taken /\ event.type = "CANCEL" /\ w.actor # 0
                   THEN @ \cup {w.actor} ELSE @,
     !.startContent = IF t.taken /\ event.type \in {"CONTINUE_WRITING", "RETRY"}
                      THEN w.context.content
                      ELSE IF t.target \in {"idle", "error"} THEN EmptyString
                      ELSE @,
     !.streamed = IF t.target \in {"generating", "idle", "error"}
                  THEN EmptyString
                  ELSE IF t.taken /\ event.type = "STREAM_CHUNK"
                       THEN @ \o event.text ELSE @,
     !.applied = IF t.taken /\ event.type = "ACCEPT_SUGGESTION" THEN TRUE
                 ELSE IF t.target = "generating" THEN FALSE ELSE @,
     !.reviewVia = IF t.target = "reviewingSuggestion" THEN event.type
                   ELSE IF t.target # "" THEN "" ELSE @,
     !.lastPrompt = IF w.state = "generating" /\ t.target # ""
                    THEN EmptyString ELSE @]

\* the machine processes one event to completion: exit actions, the
\* transition's assign, the stop of the invoked actor, then entry
send(w, event) ==
  LET t == editorMachine(w.state, w.context, event)
      w0 == record(w, event, t)
      leaving == w.state = "generating" /\ t.target # ""
      w1 == IF leaving THEN generating_exit(w0) ELSE w0
      w2 == [w1 EXCEPT !.context = t.context,
                       !.state = IF t.target # "" THEN t.target ELSE @]
      w3 == IF leaving THEN stopChild(w2) ELSE w2
  IN IF ~t.taken THEN w0
     ELSE IF t.target = "generating" THEN invoke(w3) ELSE w3

\* sendBack of the callback actor
sendBack(w, event) == send(w, event)

Called(w, cb, s, arg) ==
  Did([w EXCEPT !.called = Append(@, [cb |-> cb, sid |-> s, arg |-> arg,
                                      afterCancel |-> s \in w.cancelled])],
      cb, s)

\* the callbacks createAIGenerationActor passes to continueWriting
onStream(w, s, chunk) ==
  IF ~w.isCancelled[s]
  THEN sendBack(Called(w, "onStream", s, chunk), Event("STREAM_CHUNK", chunk, null, s))
  ELSE Called(w, "onStream", s, chunk)

onComplete(w, s, generatedText) ==
  IF ~w.isCancelled[s]
  THEN sendBack(Called(w, "onComplete", s, generatedText),
                Event("GENERATION_DONE", generatedText, null, s))
  ELSE Called(w, "onComplete", s, generatedText)

\* onError that forwards even when cancelled
onError_unfiltered(w, s, error) ==
  sendBack(Called(w, "onError", s, EmptyString),
           Event("GENERATION_ERROR", EmptyString, error, s))

onError(w, s, error) ==
  IF ~w.isCancelled[s]
  THEN sendBack(Called(w, "onError", s, EmptyString),
                Event("GENERATION_ERROR", EmptyString, error, s))
  ELSE Called(w, "onError", s, EmptyString)

\* --------------------------------------------------------------------- App
\* the effect with dependencies [content, isIdle], run after the render that
\* follows a change of the machine's snapshot from `prev`
syncEffect(w, prev) ==
  IF /\ \/ w.context.content # prev.context.content
        \/ (w.state = "idle") # (prev.state = "idle")
     /\ w.state = "idle"
     /\ w.context.content # getContent(w.editorView)
  THEN [w EXCEPT !.editorView = setContent(w.context.content),
                 !.setContentCalls = @ + 1]
  ELSE w

\* useToast: success, error and neutral add a notification
Toast(w, message) == [w EXCEPT !.toasts = Append(@, message)]

\* the effect with dependencies [hasError, error]
errorEffect(w, prev) ==
  IF /\ \/ (w.state = "error") # (prev.state = "error")
        \/ w.context.error # prev.context.error
     /\ w.state = "error"
     /\ w.context.error # null
  THEN Toast(w, "Something went wrong")
  ELSE w

\* the render that follows a change of the machine's snapshot from `prev`,
\* with its effects; it is done before the next task starts
render(w, prev) == errorEffect(syncEffect(w, prev), prev)

\* send of useMachine called from an event handler, and the render and
\* effects that follow it
App_send(w, event) == render(send(w, event), w)

\* the user's edit reaches the document only while the editor is enabled
\* (disabled = isGenerating || isReviewing); dispatchTransaction then calls
\* onChange, which is handleContentChange
handleContentChange(w, text) ==
  LET w1 == IF w.state \in {"generating", "reviewingSuggestion"} THEN w
            ELSE [w EXCEPT !.editorView = typed(text)]
  IN App_send(w1, Event("UPDATE_CONTENT", text, null, 0))

handleContinueWriting(w) == App_send(w, UserEvent("CONTINUE_WRITING"))

handleCancel(w) ==
  Toast(App_send(w, UserEvent("CANCEL")), "Generation cancelled")

handleAccept(w) ==
  Toast(App_send(w, UserEvent("ACCEPT_SUGGESTION")), "AI suggestion applied")

handleReject(w) == App_send(w, UserEvent("REJECT_SUGGESTION"))

handleRegenerate(w) == App_send(w, UserEvent("REGENERATE"))

\* what the last render derived from the machine's snapshot
isIdle(w) == w.state = "idle"

isGenerating(w) == w.state = "generating"

isReviewing(w) == w.state = "reviewingSuggestion"

\* canGenerate that forgets the state: Ctrl+Enter also acts outside Idle
canGenerate_anyState(w) == Len(trim(w.context.content)) > 0

canGenerate(w) == Len(trim(w.context.content)) > 0 /\ isIdle(w)

\* -------------------------------------------------------------------- Init
Init ==
  /\ state = "idle"
  /\ context = initialContext
  /\ actor = 0
  /\ isCancelled = [s \in Sessions |-> FALSE]
  /\ aiService = [abortController |-> 0, isActive |-> FALSE]
  /\ aborted = [s \in Sessions |-> FALSE]
  /\ req = [s \in Sessions |-> NoRequest("none")]
  /\ nsess = 0
  /\ sent = << >>
  /\ called = << >>
  /\ cancelled = {}
  /\ startContent = EmptyString
  /\ streamed = EmptyString
  /\ applied = FALSE
  /\ reviewVia = ""
  /\ editorView = typed(EmptyString)
  /\ setContentCalls = 0
  /\ lastPrompt = EmptyString
  /\ toasts = << >>
  /\ fault = NoFault
  /\ order = << >>

\* ------------------------------------------------------------- user events
\* an event that would start a session is sent only below the session bound
Allowed(event) ==
  editorMachine(state, context, event).target = "generating"
    => nsess < MaxSessions

UPDATE_CONTENT ==
  \E text \in Inputs :
    /\ Allowed(Event("UPDATE_CONTENT", text, null, 0))
    /\ Commit(handleContentChange(World, text))

CONTINUE_WRITING ==
  /\ Allowed(UserEvent("CONTINUE_WRITING"))
  /\ Commit(App_send(World, UserEvent("CONTINUE_WRITING")))

CANCEL ==
  /\ Allowed(UserEvent("CANCEL"))
  /\ Commit(App_send(World, UserEvent("CANCEL")))

ACCEPT_SUGGESTION ==
  /\ Allowed(UserEvent("ACCEPT_SUGGESTION"))
  /\ Commit(App_send(World, UserEvent("ACCEPT_SUGGESTION")))

REJECT_SUGGESTION ==
  /\ Allowed(UserEvent("REJECT_SUGGESTION"))
  /\ Commit(App_send(World, UserEvent("REJECT_SUGGESTION")))

REGENERATE ==
  /\ Allowed(UserEvent("REGENERATE"))
  /\ Commit(App_send(World, UserEvent("REGENERATE")))

RETRY ==
  /\ Allowed(UserEvent("RETRY"))
  /\ Commit(App_send(World, UserEvent("RETRY")))

DISMISS_ERROR ==
  /\ Allowed(UserEvent("DISMISS_ERROR"))
  /\ Commit(App_send(World, UserEvent("DISMISS_ERROR")))

\* ----------------------------------------------------- request continuations
FetchOutcomes == {"ok", "notOk", "networkError"}

\* the fetch promise settles (lines 22-56)
FetchSettles(s, outcome) ==
  /\ req[s].pc = "fetch"
  /\ LET w == World IN
     Commit(render(
       IF w.aborted[s] THEN settle(w, s)
       ELSE IF outcome = "networkError"
            THEN settle(onError(Fault(w, "network", s), s, "Failed to fetch"), s)
       ELSE IF outcome = "notOk"
            THEN [w EXCEPT !.req[s].pc = "errorBody"]
       ELSE [w EXCEPT !.req[s].pc = "body"], w))

\* response.json().catch(() => ({})) of a non-OK response settles; the Error
\* thrown next is not an AbortError (lines 53-55, 99-107)
ErrorBodySettles(s) ==
  /\ req[s].pc = "errorBody"
  /\ Commit(render(settle(onError(Fault(World, "status", s), s, "API error"),
                          s), World))

\* the loop that returns after the last character without calling onComplete
streamLoop_silentEnd(w, s) ==
  IF w.req[s].i < Len(w.req[s].textToStream)
  THEN IF w.aborted[s] THEN settle(w, s)
       ELSE [w EXCEPT !.req[s].pc = "delay"]
  ELSE settle(w, s)

\* the loop whose onComplete is followed by the catch block's onError
streamLoop_both(w, s) ==
  IF w.req[s].i < Len(w.req[s].textToStream)
  THEN IF w.aborted[s] THEN settle(w, s)
       ELSE [w EXCEPT !.req[s].pc = "delay"]
  ELSE IF w.aborted[s] THEN settle(w, s)
       ELSE settle(onError(onComplete(w, s, w.req[s].fullText), s,
                           "Unknown error occurred"), s)

\* the loop of lines 75-98 from the check at its head, after i characters
streamLoop(w, s) ==
  IF w.req[s].i < Len(w.req[s].textToStream)
  THEN IF w.aborted[s] THEN settle(w, s)
       ELSE [w EXCEPT !.req[s].pc = "delay"]
  ELSE IF w.aborted[s] THEN settle(w, s)
       ELSE settle(onComplete(w, s, w.req[s].fullText), s)

BodyOutcomes == {"json", "malformed"}

\* the empty-text check forgotten: the empty text is streamed
BodySettles_emptyCompletes(s, parse, outcome) ==
  /\ req[s].pc = "body"
  /\ LET w == World IN
     Commit(render(
       IF w.aborted[s] THEN settle(w, s)
       ELSE IF parse = "malformed"
            THEN settle(onError(Fault(w, "parse", s), s, "Unexpected token"), s)
       ELSE streamLoop(
              [(IF outcome = EmptyString THEN Fault(w, "empty", s) ELSE w)
                 EXCEPT !.req[s].textToStream =
                          IF startsWithSpace(outcome) THEN outcome
                          ELSE <<" ">> \o outcome,
                        !.req[s].fullText = EmptyString,
                        !.req[s].i = 0], s), w))

\* response.json() of an OK response settles (lines 58-81); outcome is the
\* text of the first candidate when the body parses
BodySettles(s, parse, outcome) ==
  /\ req[s].pc = "body"
  /\ LET w == World IN
     Commit(render(
       IF w.aborted[s] THEN settle(w, s)
       ELSE IF parse = "malformed"
            THEN settle(onError(Fault(w, "parse", s), s, "Unexpected token"), s)
       ELSE IF outcome = EmptyString
            THEN settle(onError(Fault(w, "empty", s), s, "No text generated"), s)
       ELSE streamLoop(
              [w EXCEPT !.req[s].textToStream =
                          IF startsWithSpace(outcome) THEN outcome
                          ELSE <<" ">> \o outcome,
                        !.req[s].fullText = EmptyString,
                        !.req[s].i = 0], s), w))

\* the character is streamed without being added to fullText
TimerFires_dropsChar(s) ==
  /\ req[s].pc = "delay"
  /\ LET w == World IN
     Commit(render(
       IF w.aborted[s] THEN settle(w, s)
       ELSE LET char == <<w.req[s].textToStream[w.req[s].i + 1]>>
                w2 == onStream(w, s, char)
                w3 == [w2 EXCEPT !.req[s].i = @ + 1]
            IN streamLoop(w3, s), w))

\* the setTimeout of line 81 fires (lines 83-98)
TimerFires(s) ==
  /\ req[s].pc = "delay"
  /\ LET w == World IN
     Commit(render(
       IF w.aborted[s] THEN settle(w, s)
       ELSE LET char == <<w.req[s].textToStream[w.req[s].i + 1]>>
                w1 == [w EXCEPT !.req[s].fullText = @ \o char]
                w2 == onStream(w1, s, char)
                w3 == [w2 EXCEPT !.req[s].i = @ + 1]
            IN streamLoop(w3, s), w))

Next ==
  \/ UPDATE_CONTENT
  \/ CONTINUE_WRITING
  \/ CANCEL
  \/ ACCEPT_SUGGESTION
  \/ REJECT_SUGGESTION
  \/ REGENERATE
  \/ RETRY
  \/ DISMISS_ERROR
  \/ \E s \in Sessions, outcome \in FetchOutcomes : FetchSettles(s, outcome)
  \/ \E s \in Sessions : ErrorBodySettles(s)
  \/ \E s \in Sessions, parse \in BodyOutcomes, outcome \in GenTexts :
       BodySettles(s, parse, outcome)
  \/ \E s \in Sessions : TimerFires(s)

Spec == Init /\ [][Next]_vars

\* a continuation of a request whose response has arrived
ServiceStep ==
  \/ \E s \in Sessions, parse \in BodyOutcomes, outcome \in GenTexts :
       BodySettles(s, parse, outcome)
  \/ \E s \in Sessions : ErrorBodySettles(s)
  \/ \E s \in Sessions : TimerFires(s)

\* the values of req
Requests ==
  [Sessions -> [pc : {"none", "fetch", "body", "errorBody", "delay", "done"},
                textToStream : SeqsUpTo(GenChars, MaxGenLen + 1),
                i : 0..(MaxGenLen + 1),
                fullText : SeqsUpTo(GenChars, MaxGenLen + 1)]]

\* a request whose response has arrived advances; these are the steps of
\* ServiceStep, the only ones that change req[s] of such a request
ServiceProgress ==
  \E s \in Sessions :
    /\ req[s].pc \in {"body", "errorBody", "delay"}
    /\ req' \in Requests
    /\ req'[s] # req[s]

\* Once the response has arrived, each continuation of the request is a
\* promise that settles or a timer that fires: the event loop runs it.  The
\* fetch itself has no timeout and no fairness: the response may never come.
ServiceFairness == WF_req(ServiceProgress)

FairSpec == Spec /\ ServiceFairness

\* ------------------------------------------------- the application's events
\* The user reaches a handler only through what the last render shows: the
\* editor is editable unless isGenerating || isReviewing; the Continue Writing
\* button is shown when isIdle and enabled when canGenerate, as is Ctrl+Enter;
\* Cancel and Escape call handleCancel when isGenerating; Accept and Enter
\* call handleAccept, Discard and Escape call handleReject when isReviewing;
\* Regenerate is shown when isReviewing && !isPartialSuggestion.  Nothing
\* sends RETRY or DISMISS_ERROR.
Edit ==
  \E text \in Inputs :
    /\ ~(isGenerating(World) \/ isReviewing(World))
    /\ Commit(handleContentChange(World, text))

ContinueWritingClick ==
  /\ canGenerate(World)
  /\ nsess < MaxSessions
  /\ Commit(handleContinueWriting(World))

CancelClick ==
  /\ isGenerating(World)
  /\ Commit(handleCancel(World))

AcceptClick ==
  /\ isReviewing(World)
  /\ Commit(handleAccept(World))

DiscardClick ==
  /\ isReviewing(World)
  /\ Commit(handleReject(World))

RegenerateClick ==
  /\ isReviewing(World)
  /\ ~context.isPartialSuggestion
  /\ nsess < MaxSessions
  /\ Commit(handleRegenerate(World))

\* the worlds one user interaction away from w
AppSteps(w) ==
  UNION {
    IF ~(isGenerating(w) \/ isReviewing(w))
      THEN {handleContentChange(w, text) : text \in Inputs} ELSE {},
    IF canGenerate(w) /\ w.nsess < MaxSessions
      THEN {handleContinueWriting(w)} ELSE {},
    IF isGenerating(w) THEN {handleCancel(w)} ELSE {},
    IF isReviewing(w) THEN {handleAccept(w), handleReject(w)} ELSE {},
    IF isReviewing(w) /\ ~w.context.isPartialSuggestion
         /\ w.nsess < MaxSessions
      THEN {handleRegenerate(w)} ELSE {}
  }

AppNext ==
  \/ Edit
  \/ ContinueWritingClick
  \/ CancelClick
  \/ AcceptClick
  \/ DiscardClick
  \/ RegenerateClick
  \/ \E s \in Sessions, outcome \in FetchOutcomes : FetchSettles(s, outcome)
  \/ \E s \in Sessions : ErrorBodySettles(s)
  \/ \E s \in Sessions, parse \in BodyOutcomes, outcome \in GenTexts :
       BodySettles(s, parse, outcome)
  \/ \E s \in Sessions : TimerFires(s)

AppSpec == Init /\ [][AppNext]_vars

\* ------------------------------------------------------------- properties
InFlight(s) == req[s].pc \notin {"none", "done"}

\* the single user event of the last task, when there was one
LastUser(type) ==
  /\ Len(sent) = 1
  /\ sent[1].event.type = type
  /\ sent[1].event.sid = 0

\* the last task processed GENERATION_DONE (always the last event of a task)
LastDone == sent # << >> /\ sent[Len(sent)].event.type = "GENERATION_DONE"

\* C1: once CANCEL has been processed for a session, no event of that session
\* is handed to the machine, and no step of its request changes the machine's
\* state or context, even when the service still invokes a callback.
C1_PostCancelSilence ==
  [][\A s \in cancelled :
       /\ \A i \in DOMAIN sent' : sent'[i].event.sid # s
       /\ req'[s] # req[s] => (context' = context /\ state' = state)]_vars

\* a cancelled session's request invoked a callback and nothing was forwarded
C1_Witness ==
  /\ Len(called) = 1
  /\ called[1].cb = "onError"
  /\ called[1].afterCancel
  /\ sent = << >>

\* C2: every service event processed while the machine is in Generating comes
\* from the newest session, never from an earlier one.
C2_SessionExclusivity ==
  [][state = "generating" =>
       \A i \in DOMAIN sent' : sent'[i].event.sid \in {0, nsess}]_vars

\* a chunk of the second session is applied while the first session's request
\* has not returned yet
C2_Witness ==
  /\ nsess = 2
  /\ state = "generating"
  /\ InFlight(1)
  /\ sent # << >>
  /\ sent[1].event.type = "STREAM_CHUNK"
  /\ sent[1].event.sid = 2
  /\ sent[1].taken

\* C3: at most one request is live (started, not returned, signal not aborted).
C3_AtMostOneLive ==
  Cardinality({s \in Sessions : InFlight(s) /\ ~aborted[s]}) <= 1

\* two requests are in flight, the older one aborted
C3_Witness ==
  /\ InFlight(1) /\ aborted[1]
  /\ InFlight(2) /\ ~aborted[2]

\* C4: ACCEPT_SUGGESTION in ReviewingSuggestion moves to Idle with
\* content = baseContent + suggestedContent and the suggestion fields reset.
C4_AcceptExact ==
  [][(LastUser("ACCEPT_SUGGESTION")' /\ state = "reviewingSuggestion") =>
       /\ state' = "idle"
       /\ context'.content = context.baseContent \o context.suggestedContent
       /\ context'.baseContent = EmptyString
       /\ context'.suggestedContent = EmptyString
       /\ context'.isPartialSuggestion = FALSE]_vars

\* a partial (cancelled) suggestion with text was accepted
C4_Witness ==
  /\ state = "idle"
  /\ LastUser("ACCEPT_SUGGESTION")
  /\ sent[1].taken
  /\ nsess \in cancelled
  /\ \E i \in DOMAIN context.content : context.content[i] \in GenChars \ {" "}

\* C5: REJECT_SUGGESTION in ReviewingSuggestion moves to Idle with
\* content = baseContent, which is the content the cycle started from, and
\* the suggestion fields empty.
C5_RejectExact ==
  [][(LastUser("REJECT_SUGGESTION")' /\ state = "reviewingSuggestion") =>
       /\ state' = "idle"
       /\ context'.content = context.baseContent
       /\ context'.content = startContent
       /\ context'.baseContent = EmptyString
       /\ context'.suggestedContent = EmptyString]_vars

\* a suggestion with text was rejected
C5_Witness ==
  /\ state = "idle"
  /\ LastUser("REJECT_SUGGESTION")
  /\ sent[1].taken
  /\ nsess \in cancelled
  /\ req[nsess].fullText # EmptyString

C7_NaturalCompletion ==
  [][(LastDone' /\ state = "generating") =>
       /\ state' = "reviewingSuggestion"
       /\ context'.suggestedContent = sent'[Len(sent')].event.text
       /\ context'.isPartialSuggestion = FALSE]_vars

\* a completion arrived after chunks had accumulated
C7_Witness ==
  /\ state = "reviewingSuggestion"
  /\ LastDone
  /\ sent[Len(sent)].taken
  /\ streamed # EmptyString

\* C8: CONTINUE_WRITING and RETRY with blank content change nothing and
\* start no request; a session starts only with non-blank content.
C8_StartGuard ==
  [][/\ ((LastUser("CONTINUE_WRITING")' \/ LastUser("RETRY")')
           /\ trim(context.content) = EmptyString) =>
          /\ state' = state
          /\ context' = context
          /\ nsess' = nsess
          /\ req' = req
          /\ aiService' = aiService
     /\ nsess' # nsess => trim(context.content) # EmptyString]_vars

\* CONTINUE_WRITING was sent in Idle with whitespace-only content
C8_Witness ==
  /\ state = "idle"
  /\ LastUser("CONTINUE_WRITING")
  /\ ~sent[1].taken
  /\ context.content = <<" ">>

\* C9: ACCEPT_SUGGESTION applies the suggestion of a session at most once;
\* outside ReviewingSuggestion it changes neither state nor context.
C9_ExactlyOnce ==
  [][LastUser("ACCEPT_SUGGESTION")' =>
       IF state = "reviewingSuggestion"
       THEN ~applied
       ELSE state' = state /\ context' = context]_vars

\* ACCEPT_SUGGESTION was repeated in Idle after the suggestion was applied
C9_Witness ==
  /\ state = "idle"
  /\ LastUser("ACCEPT_SUGGESTION")
  /\ ~sent[1].taken
  /\ applied

\* C10: content changes only by UPDATE_CONTENT taken in Idle or Error and by
\* ACCEPT_SUGGESTION taken in ReviewingSuggestion.
C10_ContentOnlyByAcceptance ==
  [][context'.content # context.content =>
       \/ LastUser("UPDATE_CONTENT")' /\ state \in {"idle", "error"}
       \/ LastUser("ACCEPT_SUGGESTION")' /\ state = "reviewingSuggestion"]_vars

\* chunks were applied to the preview and content still is the base content
C10_Witness ==
  /\ state = "generating"
  /\ sent # << >>
  /\ sent[1].event.type = "STREAM_CHUNK"
  /\ context.suggestedContent # EmptyString
  /\ context.content = context.baseContent

\* text produced by the remote model is part of the string
HasGenerated(text) == \E i \in DOMAIN text : text[i] \in GenChars \ {" "}

\* C11: suggestedContent is empty whenever the machine is in Idle or Error.
C11_SuggestionOnlyWhilePending ==
  state \in {"idle", "error"} => context.suggestedContent = EmptyString

\* a completed suggestion with text was accepted and the preview is empty
C11_Witness ==
  /\ state = "idle"
  /\ LastUser("ACCEPT_SUGGESTION")
  /\ sent[1].taken
  /\ nsess \notin cancelled
  /\ HasGenerated(context.content)
  /\ context.suggestedContent = EmptyString

\* C12: isPartialSuggestion is true only in ReviewingSuggestion entered by
\* CANCEL.
C12_PartialOnlyAfterCancel ==
  context.isPartialSuggestion =>
    (state = "reviewingSuggestion" /\ reviewVia = "CANCEL")

\* a second session completed after the first one was cancelled
C12_Witness ==
  /\ state = "reviewingSuggestion"
  /\ reviewVia = "GENERATION_DONE"
  /\ nsess = 2
  /\ 1 \in cancelled
  /\ ~context.isPartialSuggestion

\* C13: error is non-null only in Error; hence every transition that leaves
\* Error sets it to null.
C13_ErrorOnlyInError == context.error # null => state = "error"

\* Error was left by RETRY
C13_Witness ==
  /\ state = "generating"
  /\ LastUser("RETRY")
  /\ sent[1].taken
  /\ context.error = null

\* C14: baseContent changes only when CONTINUE_WRITING or RETRY snapshots
\* content on entering Generating, and when ACCEPT_SUGGESTION or
\* REJECT_SUGGESTION resolves the suggestion.
C14_BaseContentFrozen ==
  [][context'.baseContent # context.baseContent =>
       \/ /\ LastUser("CONTINUE_WRITING")' \/ LastUser("RETRY")'
          /\ state \in {"idle", "error"}
          /\ state' = "generating"
          /\ context'.baseContent = context.content
       \/ /\ LastUser("ACCEPT_SUGGESTION")' \/ LastUser("REJECT_SUGGESTION")'
          /\ state = "reviewingSuggestion"
          /\ context'.baseContent = EmptyString]_vars

\* REGENERATE restarted generation and baseContent still is the snapshot
C14_Witness ==
  /\ state = "generating"
  /\ LastUser("REGENERATE")
  /\ sent[1].taken
  /\ context.baseContent = startContent
  /\ context.baseContent # EmptyString

\* the user events CANCEL, REJECT_SUGGESTION, DISMISS_ERROR in a row
backToIdle(w) ==
  send(send(send(w, UserEvent("CANCEL")), UserEvent("REJECT_SUGGESTION")),
       UserEvent("DISMISS_ERROR"))

\* C15: from every reachable state the user events CANCEL, REJECT_SUGGESTION,
\* DISMISS_ERROR bring the machine to Idle without any step of the service.
C15_NoStuckState == backToIdle(World).state = "idle"

\* Idle was reached again while the request still waits for its response
C15_Witness ==
  /\ state = "idle"
  /\ LastUser("REJECT_SUGGESTION")
  /\ sent[1].taken
  /\ nsess \in cancelled
  /\ req[nsess].pc = "fetch"

\* C16: no callback of a request is invoked once its signal is aborted, that
\* is, after aiService.cancel() returned for it.
C16_ServiceCancelGuarantee ==
  [][\A i \in DOMAIN called' : ~aborted[called'[i].sid]]_vars

IsTerminal(c) == c.cb \in {"onComplete", "onError"}

\* C17: a request invokes onStream for the characters of its text in order,
\* then at most one terminal callback, after which it has returned; a request
\* that returns without having been aborted has invoked exactly one.
C17_StreamingContract ==
  [][/\ \A i \in DOMAIN called' :
          LET c == called'[i] IN
          /\ InFlight(c.sid)
          /\ IsTerminal(c) => (i = Len(called') /\ req'[c.sid].pc = "done")
          /\ c.cb = "onStream" =>
               /\ i = 1
               /\ req[c.sid].pc = "delay"
               /\ c.arg = <<req[c.sid].textToStream[req[c.sid].i + 1]>>
               /\ req'[c.sid].pc = "delay" => req'[c.sid].i = req[c.sid].i + 1
     /\ \A s \in Sessions :
          (InFlight(s) /\ req'[s].pc = "done" /\ ~aborted[s]) =>
             \E i \in DOMAIN called' :
               called'[i].sid = s /\ IsTerminal(called'[i])]_vars

\* the last character was streamed and onComplete followed in the same task
C17_Witness ==
  /\ Len(called) = 2
  /\ called[1].cb = "onStream"
  /\ called[2].cb = "onComplete"
  /\ called[2].arg = <<" ", "\n">>
  /\ req[called[2].sid].pc = "done"

\* C18: every transition that leaves Generating leaves the session's
\* isCancelled flag set, its signal aborted, and the service without
\* controller and inactive.
C18_ExitCancels ==
  [][(state = "generating" /\ state' # "generating") =>
       /\ isCancelled'[actor]
       /\ aborted'[actor]
       /\ actor' = 0
       /\ aiService'.abortController = 0
       /\ ~aiService'.isActive]_vars

\* Generating was left by the completion of the session itself
C18_Witness ==
  /\ state = "reviewingSuggestion"
  /\ LastDone
  /\ isCancelled[sent[Len(sent)].event.sid]
  /\ aborted[sent[Len(sent)].event.sid]

\* C19: cancel() is idempotent, invokes no callback, raises no error, leaves
\* the machine alone, and changes no signal when there is no controller.
C19_CancelIdempotent ==
  LET w == World
      w1 == cancel(w)
  IN /\ cancel(w1) = w1
     /\ w1.called = << >>
     /\ w1.sent = << >>
     /\ w1.state = state
     /\ w1.context = context
     /\ w1.isCancelled = isCancelled
     /\ w1.req = req
     /\ aiService.abortController = 0 =>
          (w1.aborted = aborted /\ w1.aiService.abortController = 0)

\* a failed session was left: generating.exit and the cleanup called cancel()
\* twice in a row, the second time without a controller
C19_Witness ==
  /\ state = "error"
  /\ sent # << >>
  /\ sent[Len(sent)].event.type = "GENERATION_ERROR"
  /\ sent[Len(sent)].taken
  /\ aiService.abortController = 0
  /\ req[sent[Len(sent)].event.sid].pc = "done"

StartEvents == {"CONTINUE_WRITING", "RETRY", "REGENERATE"}

\* C20: a request is started only by a user's CONTINUE_WRITING, RETRY or
\* REGENERATE, each of which, when taken, starts exactly one; Error is left
\* only by a user event.
C20_NoAutomaticRetry ==
  [][/\ (nsess' # nsess
           \/ \E s \in Sessions : req[s].pc = "none" /\ req'[s].pc # "none") =>
          /\ nsess' = nsess + 1
          /\ \E ty \in StartEvents : LastUser(ty)'
          /\ req[nsess'].pc = "none"
          /\ req'[nsess'].pc = "fetch"
          /\ \A s \in Sessions \ {nsess'} : req'[s] = req[s]
     /\ (\E ty \in StartEvents : LastUser(ty)' /\ sent'[1].taken) =>
          nsess' = nsess + 1
     /\ (state = "error" /\ state' # "error") =>
          (Len(sent') = 1 /\ sent'[1].event.sid = 0)]_vars

\* in Error, the request of an earlier session returned and nothing started
C20_Witness ==
  /\ state = "error"
  /\ sent = << >>
  /\ called # << >>
  /\ nsess = 2
  /\ req[2].pc = "done"

\* C21: setContent is called only in Idle and only by the task that accepted
\* a suggestion: never after REJECT_SUGGESTION, DISMISS_ERROR or an edit.
C21_SetContentOnlyOnAccept ==
  [][setContentCalls' > 0 =>
       /\ state' = "idle"
       /\ LastUser("ACCEPT_SUGGESTION")'
       /\ sent'[1].taken]_vars

\* C22: DISMISS_ERROR in Error moves to Idle with error null, suggestedContent
\* empty and isPartialSuggestion false; content is unchanged and no session
\* is started.
C22_DismissError ==
  [][(LastUser("DISMISS_ERROR")' /\ state = "error") =>
       /\ state' = "idle"
       /\ context'.error = null
       /\ context'.suggestedContent = EmptyString
       /\ context'.isPartialSuggestion = FALSE
       /\ context'.content = context.content
       /\ nsess' = nsess
       /\ req' = req
       /\ actor' = 0
       /\ aiService' = aiService]_vars

\* the error was dismissed and the document is as it was
C22_Witness ==
  /\ state = "idle"
  /\ LastUser("DISMISS_ERROR")
  /\ sent[1].taken
  /\ context.content = <<" ", "a", " ">>
  /\ context.error = null

\* messages of the failures a request can meet
ErrorMessages ==
  {"Failed to fetch", "API error", "Unexpected token", "No text generated"}

\* the last task processed GENERATION_ERROR
LastError ==
  /\ sent # << >>
  /\ sent[Len(sent)].event.type = "GENERATION_ERROR"
  /\ sent[Len(sent)].taken

\* C23: GENERATION_ERROR(msg) in Generating moves to Error with error = msg
\* and suggestedContent empty, content and baseContent unchanged; this is
\* what the handler does in every Generating state, with or without chunks
\* accumulated.
C23_GenerationError ==
  [][/\ (LastError' /\ state = "generating") =>
          /\ state' = "error"
          /\ context'.error = sent'[Len(sent')].event.error
          /\ context'.suggestedContent = EmptyString
          /\ context'.content = context.content
          /\ context'.baseContent = context.baseContent
     /\ state = "generating" =>
          \A msg \in ErrorMessages :
            LET t == editorMachine(state, context,
                       Event("GENERATION_ERROR", EmptyString, msg, nsess))
            IN /\ t.target = "error"
               /\ t.context = [context EXCEPT !.error = msg,
                                              !.suggestedContent = EmptyString]]_vars

\* a session failed on a non-OK response
C23_Witness ==
  /\ state = "error"
  /\ LastError
  /\ context.error = "API error"
  /\ context.baseContent = context.content
  /\ context.content # EmptyString

\* C24: REGENERATE in ReviewingSuggestion is taken whatever isPartialSuggestion
\* is; it clears suggestedContent and isPartialSuggestion, keeps baseContent
\* and content, and starts one session whose prompt is baseContent, the
\* content the replaced session started from.
C24_RegenerateUnguarded ==
  [][(LastUser("REGENERATE")' /\ state = "reviewingSuggestion") =>
       /\ sent'[1].taken
       /\ state' = "generating"
       /\ context'.suggestedContent = EmptyString
       /\ context'.isPartialSuggestion = FALSE
       /\ context'.baseContent = context.baseContent
       /\ context'.content = context.content
       /\ nsess' = nsess + 1
       /\ req'[nsess'].pc = "fetch"
       /\ lastPrompt' = context.baseContent
       /\ lastPrompt' = startContent]_vars

\* a cancelled, partial suggestion was regenerated
C24_Witness ==
  /\ state = "generating"
  /\ LastUser("REGENERATE")
  /\ sent[1].taken
  /\ (nsess - 1) \in cancelled
  /\ lastPrompt = <<" ", "a", " ">>

\* the fields of the program two runs are compared on
SameRun(a, b) ==
  /\ a.state = b.state
  /\ a.context = b.context
  /\ a.lastPrompt = b.lastPrompt
  /\ a.nsess = b.nsess
  /\ a.actor = b.actor
  /\ a.req = b.req
  /\ a.aiService = b.aiService
  /\ a.isCancelled = b.isCancelled
  /\ a.aborted = b.aborted

\* C25: RETRY and CONTINUE_WRITING in Error select the same transition as
\* CONTINUE_WRITING in Idle, whatever the content; from every Error state
\* RETRY, CONTINUE_WRITING, and DISMISS_ERROR followed by CONTINUE_WRITING
\* reach the same Generating state, context and prompt.
C25_RecoveryEquivalence ==
  /\ \A text \in Inputs :
       LET c == [context EXCEPT !.content = text] IN
       /\ error_on(c, UserEvent("RETRY"))
            = error_on(c, UserEvent("CONTINUE_WRITING"))
       /\ error_on(c, UserEvent("RETRY"))
            = idle_on(c, UserEvent("CONTINUE_WRITING"))
  /\ (state = "error" /\ nsess < MaxSessions) =>
       LET a == send(World, UserEvent("RETRY"))
           b == send(World, UserEvent("CONTINUE_WRITING"))
           c == send(send(World, UserEvent("DISMISS_ERROR")),
                     UserEvent("CONTINUE_WRITING"))
       IN /\ SameRun(a, b)
          /\ hasContent(context) => (a.state = "generating" /\ SameRun(a, c))

\* Error was left by CONTINUE_WRITING, which started a session
C25_Witness ==
  /\ state = "generating"
  /\ LastUser("CONTINUE_WRITING")
  /\ sent[1].taken
  /\ sent[1].from = "error"
  /\ lastPrompt = context.content

\* C26: UPDATE_CONTENT(text) in Error moves to Idle with content = text and
\* error null; in Idle it stays in Idle and changes only content; neither
\* starts a session.
C26_UpdateContent ==
  [][LastUser("UPDATE_CONTENT")' =>
       /\ state = "error" =>
            /\ state' = "idle"
            /\ context'.content = sent'[1].event.text
            /\ context'.error = null
       /\ state = "idle" =>
            /\ state' = "idle"
            /\ context' = [context EXCEPT !.content = sent'[1].event.text]
       /\ state \in {"idle", "error"} =>
            /\ nsess' = nsess
            /\ req' = req
            /\ actor' = actor
            /\ aiService' = aiService]_vars

\* an edit in Error replaced the content by whitespace and led to Idle
C26_Witness ==
  /\ state = "idle"
  /\ LastUser("UPDATE_CONTENT")
  /\ sent[1].from = "error"
  /\ context.content = <<" ">>
  /\ context.error = null

\* C27: when the request of a session that is not cancelled meets a failure
\* (network failure, non-OK response, unparseable body, empty text), exactly
\* one event of it reaches the machine in that task, a GENERATION_ERROR with
\* a string message, and the request has returned; GENERATION_DONE never
\* carries an empty text.
C27_FailureNormalization ==
  [][/\ (fault'.kind # "" /\ ~isCancelled[fault'.sid]) =>
          /\ Cardinality({i \in DOMAIN sent' :
                            sent'[i].event.sid = fault'.sid}) = 1
          /\ \A i \in DOMAIN sent' :
               sent'[i].event.sid = fault'.sid =>
                 /\ sent'[i].event.type = "GENERATION_ERROR"
                 /\ sent'[i].event.error \in ErrorMessages
                 /\ sent'[i].taken
          /\ state' = "error"
          /\ req'[fault'.sid].pc = "done"
     /\ \A i \in DOMAIN sent' :
          sent'[i].event.type = "GENERATION_DONE" =>
            sent'[i].event.text # EmptyString]_vars

\* the model returned the empty text and the session failed
C27_Witness ==
  /\ state = "error"
  /\ fault.kind = "empty"
  /\ LastError
  /\ context.error = "No text generated"

\* C28: the prompt of every session is baseContent as set by the entering
\* transition, which for CONTINUE_WRITING and RETRY is the content at that
\* moment; it does not change while the session runs.
C28_FrozenPrompt ==
  [][/\ nsess' # nsess =>
          /\ lastPrompt' = context'.baseContent
          /\ (LastUser("CONTINUE_WRITING")' \/ LastUser("RETRY")') =>
               lastPrompt' = context.content
     /\ (state = "generating" /\ state' = "generating") =>
          lastPrompt' = lastPrompt]_vars

\* chunks arrived and the prompt still is the snapshot, whitespace included
C28_Witness ==
  /\ state = "generating"
  /\ sent # << >>
  /\ sent[1].event.type = "STREAM_CHUNK"
  /\ context.suggestedContent # EmptyString
  /\ lastPrompt = <<" ", "a", " ">>
  /\ lastPrompt = context.baseContent

C30_CompletionCarriesText ==
  [][/\ \A i \in DOMAIN called' :
          called'[i].cb = "onComplete" =>
            called'[i].arg = req[called'[i].sid].textToStream
     /\ \A s \in Sessions :
          req[s].pc = "delay" =>
            req[s].fullText = SubSeq(req[s].textToStream, 1, req[s].i)
     /\ (state = "generating" /\ req[nsess].pc = "delay") =>
          /\ context.suggestedContent = req[nsess].fullText
          /\ context.suggestedContent = streamed
     /\ (LastDone' /\ state = "generating") =>
          /\ sent'[Len(sent')].event.text = streamed'
          /\ sent'[Len(sent')].event.text = context'.suggestedContent]_vars

\* a session completed: its last chunk and its completion in one task
C30_Witness ==
  /\ state = "reviewingSuggestion"
  /\ LastDone
  /\ sent[Len(sent)].taken
  /\ Len(sent) = 2
  /\ sent[2].event.text = <<" ", "\n">>
  /\ context.suggestedContent = streamed

EventTypes ==
  {"UPDATE_CONTENT", "CONTINUE_WRITING", "STREAM_CHUNK", "GENERATION_DONE",
   "GENERATION_ERROR", "CANCEL", "ACCEPT_SUGGESTION", "REJECT_SUGGESTION",
   "REGENERATE", "RETRY", "DISMISS_ERROR"}

\* the events that have a row in the transition table of a state
Rows(st) ==
  CASE st = "idle" -> {"UPDATE_CONTENT", "CONTINUE_WRITING"}
    [] st = "generating" ->
         {"STREAM_CHUNK", "GENERATION_DONE", "GENERATION_ERROR", "CANCEL"}
    [] st = "reviewingSuggestion" ->
         {"ACCEPT_SUGGESTION", "REJECT_SUGGESTION", "REGENERATE"}
    [] st = "error" ->
         {"RETRY", "DISMISS_ERROR", "UPDATE_CONTENT", "CONTINUE_WRITING"}

\* C31: in every state, an event that has no row for the state is not taken
\* and leaves state, context, actor, service and requests as they are.
C31_IgnoredEvents ==
  \A ty \in EventTypes \ Rows(state) :
    LET w == send(World, Event(ty, <<" ">>, "API error", nsess))
    IN /\ ~w.sent[1].taken
       /\ w.state = state
       /\ w.context = context
       /\ w.actor = actor
       /\ w.nsess = nsess
       /\ w.req = req
       /\ w.aiService = aiService
       /\ w.aborted = aborted
       /\ w.isCancelled = isCancelled

\* an edit was sent while a partial suggestion was under review
C31_Witness ==
  /\ state = "reviewingSuggestion"
  /\ LastUser("UPDATE_CONTENT")
  /\ ~sent[1].taken
  /\ context.isPartialSuggestion
  /\ context.suggestedContent # EmptyString

\* C34: aiService.active is true exactly when a request is in flight whose
\* signal is not aborted.
C34_ActiveIffInFlight ==
  aiService.isActive <=> \E s \in Sessions : InFlight(s) /\ ~aborted[s]

\* C35: in Generating, ReviewingSuggestion and Error content equals
\* baseContent; hence REJECT_SUGGESTION leaves content as it is and RETRY
\* snapshots the same text again.
C35_ContentIsBase ==
  /\ state \in {"generating", "reviewingSuggestion", "error"} =>
       context.content = context.baseContent
  /\ state = "reviewingSuggestion" =>
       reviewingSuggestion_REJECT_SUGGESTION(context).content = context.content
  /\ state = "error" =>
       error_RETRY(context).baseContent = context.baseContent

\* in Error after an ignored CANCEL, content still is the snapshot
C35_Witness ==
  /\ state = "error"
  /\ LastUser("CANCEL")
  /\ ~sent[1].taken
  /\ context.content = context.baseContent
  /\ context.content = <<" ", "a", " ">>

\* C36: in Error the trimmed content is non-empty, so the guards of RETRY and
\* CONTINUE_WRITING hold and both events are taken.
C36_ErrorHasContent ==
  state = "error" =>
    /\ Len(trim(context.content)) > 0
    /\ error_on(context, UserEvent("RETRY")).taken
    /\ error_on(context, UserEvent("CONTINUE_WRITING")).taken

\* a session whose content has whitespace on both sides failed
C36_Witness ==
  /\ state = "error"
  /\ LastError
  /\ trim(context.content) = <<"a">>
  /\ context.content # trim(context.content)

\* C37: within a task, every isCancelled assignment and cancel() call comes
\* before a continueWriting call, whose own cancel() finds no controller; a
\* signal is aborted only for the session whose Generating state is left, and
\* a session that was just started is not aborted.
C37_CancelBeforeNextSession ==
  [][/\ \A j \in DOMAIN order' :
          order'[j].op = "continueWriting" =>
            /\ j > 1
            /\ order'[j - 1] = [op |-> "cancel", sid |-> 0]
            /\ \A i \in (j + 1)..Len(order') :
                 order'[i].op \notin {"cancel", "isCancelled"}
     /\ \A s \in Sessions :
          (aborted'[s] /\ ~aborted[s]) =>
            (s = actor /\ state = "generating" /\ state' # "generating")
     /\ nsess' # nsess =>
          /\ ~aborted'[nsess']
          /\ aiService'.abortController = nsess'
          /\ \A s \in 1..nsess : isCancelled[s] /\ aborted[s]]_vars

\* a second session started while the request of the first, cancelled one
\* had not returned
C37_Witness ==
  /\ state = "generating"
  /\ nsess = 2
  /\ LastUser("REGENERATE")
  /\ InFlight(1)
  /\ aborted[1]
  /\ ~aborted[2]
  /\ order = <<[op |-> "cancel", sid |-> 0],
               [op |-> "continueWriting", sid |-> 2]>>

\* C39: in ReviewingSuggestion suggestedContent is empty only after a CANCEL
\* that came before the first chunk; a completed suggestion is non-empty.
C39_CompletedNonEmpty ==
  (state = "reviewingSuggestion" /\ context.suggestedContent = EmptyString) =>
    /\ context.isPartialSuggestion
    /\ reviewVia = "CANCEL"
    /\ streamed = EmptyString

\* the model returned a single space and the session completed
C39_Witness ==
  /\ state = "reviewingSuggestion"
  /\ reviewVia = "GENERATION_DONE"
  /\ ~context.isPartialSuggestion
  /\ context.suggestedContent = <<" ">>

IdleWithinTwo(w) ==
  \/ isIdle(w)
  \/ \E w1 \in AppSteps(w) :
       \/ isIdle(w1)
       \/ \E w2 \in AppSteps(w1) : isIdle(w2)

\* C38: with only the events the application sends, Idle can be reached
\* from every reachable state by user interactions alone, and the machine
\* leaves Error only by an UPDATE_CONTENT, which takes it to Idle.
C38_IdleReachableByApp ==
  [][/\ IdleWithinTwo(World)
     /\ IdleWithinTwo(World)'
     /\ (state = "error" /\ state' # "error") =>
          /\ LastUser("UPDATE_CONTENT")'
          /\ sent'[1].taken
          /\ state' = "idle"]_vars

\* Error was left by an edit that took the machine to Idle
C38_Witness ==
  /\ state = "idle"
  /\ LastUser("UPDATE_CONTENT")
  /\ sent[1].from = "error"
  /\ toasts = << >>
  /\ context.content = <<" ", "a", " ">>

\* the response of the machine's session has arrived
Responded ==
  /\ state = "generating"
  /\ req[actor].pc \in {"body", "errorBody", "delay"}

\* the machine has left Generating: for Error, for ReviewingSuggestion by
\* CANCEL, or by a GENERATION_DONE whose text has as many characters as
\* chunks were applied
Terminated ==
  \/ state = "error"
  \/ state = "reviewingSuggestion" /\ reviewVia = "CANCEL"
  \/ /\ state = "reviewingSuggestion"
     /\ LastDone
     /\ Len(streamed) = Len(sent[Len(sent)].event.text)
     /\ streamed # EmptyString

\* C32: under fair scheduling of the service's continuations, a session whose
\* response has arrived leaves Generating: for Error, for ReviewingSuggestion
\* by CANCEL, or for ReviewingSuggestion by a GENERATION_DONE that follows
\* exactly as many chunks as the streamed text has characters.
C32_SessionTerminates == Responded ~> Terminated

\* a session that was never cancelled ended with GENERATION_DONE after the
\* longest text
C32_Witness ==
  /\ state = "reviewingSuggestion"
  /\ LastDone
  /\ Len(streamed) = MaxGenLen + 1
  /\ cancelled = {}

\* not a property of FairSpec: while the fetch has not settled and no CANCEL
\* is sent, nothing makes the machine leave Generating
LeavesGeneratingUnconditionally ==
  (state = "generating") ~> (state # "generating")

\* the steps that ServiceFairness is about are the service's continuations
ServiceProgressIsServiceStep ==
  [][(req \in Requests) /\ (ServiceProgress <=> ServiceStep)]_vars

====
